---- MODULE Spec2Model ----
(***************************************************************************)
(* A model of raisin: loading typed values, arrays and flag bitmasks from  *)
(* a parsed TOML table, and the and_then/map chains that assemble SDL      *)
(* resources from them.                                                    *)
(*                                                                         *)
(* Representation.  A std::string is a sequence of one-character strings.  *)
(* An unsigned bitmask is the set of the positions of its set bits, so `|' *)
(* is set union and a conversion to a w-bit unsigned type keeps the        *)
(* positions below w.  A toml node is a record [kind, val]; a toml::table  *)
(* is a function from keys to nodes; a toml path is a sequence of keys.    *)
(***************************************************************************)
EXTENDS Integers, Sequences, FiniteSets, TLC

VARIABLES
    call,        \* the operation under way and the arguments it was called with
    pc,          \* "ready" before the call runs, then "done" or "crashed"
    result,      \* what the call returned
    flag_names,  \* the caller's range of names, which parse_flags rearranges
    sink,        \* the caller's destination for invalid names
    into_array,  \* the caller's storage that load_array writes into
    step,        \* in a chain: the position of the next and_then or map
    outputs,     \* in a chain: the output variables the steps capture
    invoked,     \* in a chain: the steps whose callable has been invoked
    runtime      \* the calls made into SDL, in order

chainVars == <<step, outputs, invoked, runtime>>

vars == <<call, pc, result, flag_names, sink, into_array,
          step, outputs, invoked, runtime>>

NoChain == step = 0 /\ outputs = <<>> /\ invoked = <<>> /\ runtime = <<>>

----------------------------------------------------------------------------
(* Bounds of the model *)

MaxNames == 3
MaxSink == 2
MaxArray == 3
MaxColor == 5

----------------------------------------------------------------------------
(* std::string, std::tolower *)

UpperCase == <<"A","B","C","D","E","F","G","H","I","J","K","L","M",
               "N","O","P","Q","R","S","T","U","V","W","X","Y","Z">>
LowerCase == <<"a","b","c","d","e","f","g","h","i","j","k","l","m",
               "n","o","p","q","r","s","t","u","v","w","x","y","z">>

tolower(ch) ==
    IF \E i \in 1..Len(UpperCase) : UpperCase[i] = ch
    THEN LowerCase[CHOOSE i \in 1..Len(UpperCase) : UpperCase[i] = ch]
    ELSE ch

_strlower(str) == [i \in 1..Len(str) |-> tolower(str[i])]

----------------------------------------------------------------------------
(* Unsigned integers as sets of bit positions *)

UIntBits == 32

ToWidth(bits, w) == { b \in bits : b < w }

bit_or(a, b, w) == ToWidth(a, w) \cup ToWidth(b, w)

(* std::transform_reduce(first, last, 0u, std::bit_or<flag_t>{}, as_flag):   *)
(* the accumulator has the type of the seed 0u, unsigned int; each step      *)
(* converts it to flag_t, ors, and converts the flag_t result back.          *)
RECURSIVE transform_reduce(_, _, _, _, _, _)
transform_reduce(names, first, last, init, flagmap, w) ==
    IF first = last THEN init
    ELSE LET before == transform_reduce(names, first, last - 1, init, flagmap, w)
         IN  ToWidth(bit_or(before, flagmap[names[last - 1]], w), UIntBits)

----------------------------------------------------------------------------
(* Flag names and flag tables *)

n_audio == <<"a","u","d","i","o">>
n_video == <<"v","i","d","e","o">>
n_VIDEO == <<"V","I","D","E","O">>
n_Audio == <<"A","u","d","i","o">>
n_bogus == <<"b","o","g","u","s">>
n_Bogus == <<"B","o","g","u","s">>
n_junk == <<"j","u","n","k">>
n_big == <<"b","i","g">>
n_resizable == <<"r","e","s","i","z","a","b","l","e">>
n_shown == <<"s","h","o","w","n">>
n_software == <<"s","o","f","t","w","a","r","e">>
n_accelerated == <<"a","c","c","e","l","e","r","a","t","e","d">>
n_Game == <<"G","a","m","e">>

(* SDL_INIT_* as bit positions: TIMER 0x1, AUDIO 0x10, VIDEO 0x20,           *)
(* JOYSTICK 0x200, HAPTIC 0x1000, GAMECONTROLLER 0x2000, EVENTS 0x4000,      *)
(* EVERYTHING = all of them and SENSOR 0x8000                                *)
SDL_INIT_TIMER == {0}
SDL_INIT_AUDIO == {4}
SDL_INIT_VIDEO == {5}
SDL_INIT_JOYSTICK == {9}
SDL_INIT_HAPTIC == {12}
SDL_INIT_GAMECONTROLLER == {13}
SDL_INIT_EVENTS == {14}
SDL_INIT_EVERYTHING == {0, 4, 5, 9, 12, 13, 14, 15}

(* a flag table: the width of its value type and the map itself *)
as_subsystem_flag ==
    [width |-> 32,
     map |-> (<<"t","i","m","e","r">> :> SDL_INIT_TIMER) @@
             (n_audio :> SDL_INIT_AUDIO) @@
             (n_video :> SDL_INIT_VIDEO) @@
             (<<"j","o","y","s","t","i","c","k">> :> SDL_INIT_JOYSTICK) @@
             (<<"h","a","p","t","i","c">> :> SDL_INIT_HAPTIC) @@
             (<<"g","a","m","e","-","c","o","n","t","r","o","l","l","e","r">>
                :> SDL_INIT_GAMECONTROLLER) @@
             (<<"e","v","e","n","t","s">> :> SDL_INIT_EVENTS) @@
             (<<"e","v","e","r","y","t","h","i","n","g">>
                :> SDL_INIT_EVERYTHING)]

(* SDL_WINDOW_*: FULLSCREEN 0x1, OPENGL 0x2, SHOWN 0x4, HIDDEN 0x8,          *)
(* BORDERLESS 0x10, RESIZABLE 0x20, MINIMIZED 0x40, MAXIMIZED 0x80,          *)
(* INPUT_GRABBED 0x100, FULLSCREEN_DESKTOP 0x1001, ALLOW_HIGHDPI 0x2000,     *)
(* VULKAN 0x10000000, METAL 0x20000000                                       *)
as_window_flag ==
    [width |-> 32,
     map |-> (<<"f","u","l","l","s","c","r","e","e","n">> :> {0}) @@
             (<<"f","u","l","l","s","c","r","e","e","n","-",
                "d","e","s","k","t","o","p">> :> {0, 12}) @@
             (<<"o","p","e","n","g","l">> :> {1}) @@
             (<<"v","u","l","k","a","n">> :> {28}) @@
             (<<"m","e","t","a","l">> :> {29}) @@
             (<<"h","i","d","d","e","n">> :> {3}) @@
             (<<"b","o","r","d","e","r","l","e","s","s">> :> {4}) @@
             (n_resizable :> {5}) @@
             (<<"m","i","n","i","m","i","z","e","d">> :> {6}) @@
             (<<"m","a","x","i","m","i","z","e","d">> :> {7}) @@
             (<<"i","n","p","u","t","-","g","r","a","b","b","e","d">>
                :> {8}) @@
             (<<"a","l","l","o","w","-","h","i","g","h","-","d","p","i">>
                :> {13}) @@
             (n_shown :> {2})]

(* sdl/renderer.hpp: SOFTWARE 0x1, ACCELERATED 0x2, PRESENTVSYNC 0x4,        *)
(* TARGETTEXTURE 0x8                                                         *)
as_renderer_flag ==
    [width |-> 32,
     map |-> (n_software :> {0}) @@ (n_accelerated :> {1}) @@
             (<<"p","r","e","s","e","n","t","-","v","s","y","n","c">>
                :> {2}) @@
             (<<"t","a","r","g","e","t","-","t","e","x","t","u","r","e">>
                :> {3})]

(* flag_lookup admits any unsigned value type: a 64-bit table, a 16-bit one  *)
wide_flag == [width |-> 64,
              map |-> (n_video :> {5}) @@ (n_audio :> {4, 40}) @@ (n_big :> {32})]
short_flag == [width |-> 16, map |-> (n_video :> {5}) @@ (n_junk :> {15})]

FlagTables == {as_subsystem_flag, as_window_flag, wide_flag, short_flag}

NameUniverse == {n_video, n_VIDEO, n_audio, n_Audio, n_bogus, n_Bogus, n_junk, n_big}

NameLists == UNION { [1..n -> NameUniverse] : n \in 0..MaxNames }

----------------------------------------------------------------------------
(* std::ranges::partition.  The order inside the two groups is unspecified;  *)
(* the two algorithms below are the ones the library selects by iterator     *)
(* category.  Iterators are positions 1..Len+1.                              *)

Swap(s, i, j) ==
    [k \in DOMAIN s |-> IF k = i THEN s[j] ELSE IF k = j THEN s[i] ELSE s[k]]

RECURSIVE find_if_not(_, _, _, _)
find_if_not(s, valid, first, last) ==
    IF first = last THEN first
    ELSE IF s[first] \in valid THEN find_if_not(s, valid, first + 1, last)
    ELSE first

RECURSIVE find_last_valid(_, _, _, _)
find_last_valid(s, valid, first, tail) ==
    IF first = tail THEN tail
    ELSE IF s[tail] \notin valid THEN find_last_valid(s, valid, first, tail - 1)
    ELSE tail

RECURSIVE partition_bidirectional(_, _, _, _)
partition_bidirectional(s, valid, first0, tail0) ==
    LET first == find_if_not(s, valid, first0, tail0)
    IN  IF first = tail0 THEN [range |-> s, mid |-> first]
        ELSE LET tail == find_last_valid(s, valid, first, tail0 - 1)
             IN  IF first = tail THEN [range |-> s, mid |-> first]
                 ELSE partition_bidirectional(Swap(s, first, tail), valid,
                                              first + 1, tail)

RECURSIVE partition_forward(_, _, _, _)
partition_forward(s, valid, first, next) ==
    IF next = Len(s) + 1 THEN [range |-> s, mid |-> first]
    ELSE IF s[next] \in valid
         THEN partition_forward(Swap(s, first, next), valid, first + 1, next + 1)
         ELSE partition_forward(s, valid, first, next + 1)

IteratorCategories == {"forward", "bidirectional"}

(* partition that finds the first invalid name and moves nothing *)
partition_unmoved(s, valid, category) ==
    [range |-> s, mid |-> find_if_not(s, valid, 1, Len(s) + 1)]

partition(s, valid, category) ==
    IF category = "bidirectional"
    THEN partition_bidirectional(s, valid, 1, Len(s) + 1)
    ELSE LET first == find_if_not(s, valid, 1, Len(s) + 1)
         IN  IF first = Len(s) + 1 THEN [range |-> s, mid |-> first]
             ELSE partition_forward(s, valid, first, first + 1)

(* a sequence without the later occurrences of its elements *)
RECURSIVE Once(_)
Once(s) ==
    IF s = <<>> THEN <<>>
    ELSE LET before == Once(SubSeq(s, 1, Len(s) - 1))
         IN  IF \E i \in 1..Len(before) : before[i] = s[Len(s)]
             THEN before ELSE Append(before, s[Len(s)])

(* parse_flags that drops repeated names ahead of the partition *)
parse_flags_deduplicating(names, flagmap, category) ==
    LET lowered == Once([i \in 1..Len(names) |-> _strlower(names[i])])
        parted  == partition(lowered, DOMAIN flagmap.map, category)
        reduced == transform_reduce(parted.range, 1, parted.mid, {},
                                    flagmap.map, flagmap.width)
    IN  [value         |-> ToWidth(reduced, flagmap.width),
         invalid_names |-> SubSeq(parted.range, parted.mid, Len(lowered)),
         flag_names    |-> parted.range]

(* parse_flags(flag_names, flagmap): is_flag is membership in the table,     *)
(* as_flag its lookup.  Returns the value, the invalid suffix, and the       *)
(* caller's range as the call leaves it.                                     *)
parse_flags(names, flagmap, category) ==
    LET lowered == [i \in 1..Len(names) |-> _strlower(names[i])]
        parted  == partition(lowered, DOMAIN flagmap.map, category)
        reduced == transform_reduce(parted.range, 1, parted.mid, {},
                                    flagmap.map, flagmap.width)
    IN  [value         |-> ToWidth(reduced, flagmap.width),
         invalid_names |-> SubSeq(parted.range, parted.mid, Len(names)),
         flag_names    |-> parted.range]

----------------------------------------------------------------------------
(* toml nodes, tables and paths *)

None     == [kind |-> "none"]
BoolNode(b) == [kind |-> "boolean", val |-> b]
IntNode(i) == [kind |-> "integer", val |-> i]
(* a double is kept as its number of halves: 2.5 is [halves |-> 5] *)
Double(h) == [halves |-> h]
FltNode(h) == [kind |-> "floating_point", val |-> Double(h)]
StrNode(s) == [kind |-> "string", val |-> s]
ArrNode(a) == [kind |-> "array", val |-> a]
TblNode(t) == [kind |-> "table", val |-> t]

EmptyTable == [k \in {} |-> None]

(* toml::table::at_path: walks the dotted path; a missing key or a segment   *)
(* below a node that is not a table gives the empty node view                *)
RECURSIVE at_path(_, _)
at_path(table, path) ==
    IF path = <<>> THEN TblNode(table)
    ELSE IF Head(path) \notin DOMAIN table THEN None
    ELSE LET node == table[Head(path)]
         IN  IF Len(path) = 1 THEN node
             ELSE IF node.kind = "table" THEN at_path(node.val, Tail(path))
             ELSE None

(* expected<T, std::string> *)
expected(v)   == [ok |-> TRUE, val |-> v]
unexpected(e) == [ok |-> FALSE, err |-> e]

(* An error string is the sequence of the parts it is concatenated from *)
Lit(s)      == [lit |-> s]
PathPart(p) == [path |-> p]

(* std::to_string of a std::size_t: its decimal digits *)
DigitChars == <<"0","1","2","3","4","5","6","7","8","9">>
RECURSIVE to_string(_)
to_string(n) ==
    IF n < 10 THEN <<DigitChars[n + 1]>>
    ELSE to_string(n \div 10) \o <<DigitChars[(n % 10) + 1]>>
Num(n) == [digits |-> to_string(n)]

(* the value types the loaders are instantiated with *)
ValueTypes == {"bool", "int", "uint32", "uint8", "double", "string"}
IntegerTypes == {"int", "uint32", "uint8"}

(* node_type_v<value_t> *)
node_type(T) ==
    CASE T = "bool" -> "boolean"
      [] T \in IntegerTypes -> "integer"
      [] T = "double" -> "floating_point"
      [] T = "string" -> "string"

(* typeid(value_t).name() under the Itanium ABI *)
typeid_name(T) ==
    CASE T = "bool" -> "b"
      [] T = "int" -> "i"
      [] T = "uint32" -> "j"
      [] T = "uint8" -> "h"
      [] T = "double" -> "d"
      [] T = "string" -> "NSt7__cxx1112basic_stringIcSt11char_traitsIcESaIcEEE"

(* whether the 64-bit integer v is a value of the integer type T; the model's *)
(* integers all lie inside int's range and below uint32's upper limit         *)
Representable(T, v) ==
    CASE T = "uint8" -> v >= 0 /\ v <= 255
      [] T = "uint32" -> v >= 0
      [] T = "int" -> TRUE

(* std::optional<T> *)
nullopt == [has |-> FALSE]
optional(v) == [has |-> TRUE, val |-> v]

(* node_value without the range check: an integer outside T converts as a   *)
(* static_cast would                                                         *)
node_value_unchecked(T, node) ==
    CASE T = "string" ->
            IF node.kind = "string" THEN optional(node.val) ELSE nullopt
      [] T \in IntegerTypes ->
            CASE node.kind = "integer" ->
                    optional(IF T = "uint8" THEN node.val % 256 ELSE node.val)
              [] node.kind = "floating_point" ->
                    IF node.val.halves % 2 = 0
                    THEN optional(node.val.halves \div 2) ELSE nullopt
              [] node.kind = "boolean" ->
                    optional(IF node.val THEN 1 ELSE 0)
              [] OTHER -> nullopt
      [] T = "double" ->
            CASE node.kind = "floating_point" -> optional(node.val)
              [] node.kind = "integer" -> optional(Double(2 * node.val))
              [] OTHER -> nullopt
      [] T = "bool" ->
            CASE node.kind = "boolean" -> optional(node.val)
              [] node.kind = "integer" -> optional(node.val # 0)
              [] OTHER -> nullopt

(* toml::node_view::value<T>(): the value when the node has T's kind, else   *)
(* one of toml++'s permitted conversions, else nothing                       *)
node_value(T, node) ==
    CASE T = "string" ->
            IF node.kind = "string" THEN optional(node.val) ELSE nullopt
      [] T \in IntegerTypes ->
            CASE node.kind = "integer" ->
                    IF Representable(T, node.val) THEN optional(node.val)
                    ELSE nullopt
              [] node.kind = "floating_point" ->
                    IF node.val.halves % 2 = 0
                       /\ Representable(T, node.val.halves \div 2)
                    THEN optional(node.val.halves \div 2) ELSE nullopt
              [] node.kind = "boolean" ->
                    optional(IF node.val THEN 1 ELSE 0)
              [] OTHER -> nullopt
      [] T = "double" ->
            CASE node.kind = "floating_point" -> optional(node.val)
              [] node.kind = "integer" -> optional(Double(2 * node.val))
              [] OTHER -> nullopt
      [] T = "bool" ->
            CASE node.kind = "boolean" -> optional(node.val)
              [] node.kind = "integer" -> optional(node.val # 0)
              [] OTHER -> nullopt

validate_variable(table, variable_path) ==
    IF at_path(table, variable_path).kind = "none"
    THEN unexpected(<<Lit("Expected the variable "), PathPart(variable_path),
                      Lit(" to exist, "), Lit("but it doesn't")>>)
    ELSE expected(table)

(* subtable without the test that the variable exists *)
subtable_unvalidated(table, variable_path) ==
    IF at_path(table, variable_path).kind # "table"
    THEN unexpected(<<Lit("Expecting "), PathPart(variable_path),
                      Lit(" to be a table, "), Lit("but it wasn't")>>)
    ELSE expected(at_path(table, variable_path).val)

subtable(table, variable_path) ==
    LET checked == validate_variable(table, variable_path)
    IN  IF ~checked.ok THEN unexpected(checked.err)
        ELSE IF at_path(table, variable_path).kind # "table"
        THEN unexpected(<<Lit("Expecting "), PathPart(variable_path),
                          Lit(" to be a table, "), Lit("but it wasn't")>>)
        ELSE expected(at_path(table, variable_path).val)

load_value(T, table, variable_path) ==
    LET table_result == validate_variable(table, variable_path)
    IN  IF ~table_result.ok THEN unexpected(table_result.err)
        ELSE LET value_result == node_value(T, at_path(table, variable_path))
             IN  IF ~value_result.has
                 THEN unexpected(<<Lit("Expecting "), PathPart(variable_path),
                                   Lit(" to have type "), Lit(typeid_name(T)),
                                   Lit(", but it doesn't")>>)
                 ELSE expected(value_result.val)

load_value_or_else(T, table, variable_path, default_val) ==
    LET loaded == load_value(T, table, variable_path)
    IN  IF ~loaded.ok THEN default_val ELSE loaded.val

(* toml::array::for_each with a visitor taking inserted_type_of<value_t>:    *)
(* it visits the elements of that kind and skips the others; each visited    *)
(* element is written through static_cast<value_t>                           *)
static_cast(T, v) == IF T = "uint8" THEN v % 256 ELSE v

RECURSIVE for_each(_, _, _, _)
for_each(arr, n, T, state) ==
    IF n = 0 THEN state
    ELSE LET before == for_each(arr, n - 1, T, state)
         IN  IF arr[n].kind = node_type(T)
             THEN [it    |-> before.it + 1,
                   array |-> [j \in DOMAIN before.array |->
                                 IF j = before.it
                                 THEN static_cast(T, arr[n].val)
                                 ELSE before.array[j]]]
             ELSE before

(* load_array with the capacity test off by one *)
load_array_off_by_one(T, table, variable_path, array) ==
    LET checked == validate_variable(table, variable_path)
        node == at_path(table, variable_path)
    IN  IF ~checked.ok THEN unexpected(checked.err)
        ELSE IF node.kind # "array"
        THEN unexpected(<<PathPart(variable_path), Lit(" must be an array")>>)
        ELSE IF Len(node.val) >= Len(array)
        THEN unexpected(<<PathPart(variable_path), Lit(" can have at most "),
                          Num(Len(array)), Lit(" items, but it has "),
                          Num(Len(node.val))>>)
        ELSE LET done == for_each(node.val, Len(node.val), T,
                                  [it |-> 1, array |-> array])
             IN  [ok |-> TRUE, val |-> done.it, array |-> done.array]

(* load_array(table, variable_path, array) for storage of value type T:      *)
(* on success the iterator past the last element written and the storage     *)
load_array(T, table, variable_path, array) ==
    LET checked == validate_variable(table, variable_path)
        node == at_path(table, variable_path)
    IN  IF ~checked.ok THEN unexpected(checked.err)
        ELSE IF node.kind # "array"
        THEN unexpected(<<PathPart(variable_path), Lit(" must be an array")>>)
        ELSE IF Len(node.val) > Len(array)
        THEN unexpected(<<PathPart(variable_path), Lit(" can have at most "),
                          Num(Len(array)), Lit(" items, but it has "),
                          Num(Len(node.val))>>)
        ELSE LET done == for_each(node.val, Len(node.val), T,
                                  [it |-> 1, array |-> array])
             IN  [ok |-> TRUE, val |-> done.it, array |-> done.array]

----------------------------------------------------------------------------
(* The invalid-name sink: an output iterator.  A std::back_inserter grows    *)
(* without bound; an iterator into fixed storage has `capacity' slots, and   *)
(* what is written through it past the last slot lands outside the storage.  *)

back_inserter == [bounded |-> FALSE, capacity |-> 0,
                  written |-> <<>>, overrun |-> <<>>]
into_storage(n) == [bounded |-> TRUE, capacity |-> n,
                    written |-> <<>>, overrun |-> <<>>]

(* std::ranges::copy(range, out): assigns and increments once per element *)
copy(range, out) ==
    LET room == IF out.bounded THEN out.capacity - Len(out.written)
                ELSE Len(range)
        fits == IF Len(range) <= room THEN Len(range) ELSE room
    IN  [bounded  |-> out.bounded,
         capacity |-> out.capacity,
         written  |-> out.written \o SubSeq(range, 1, fits),
         overrun  |-> out.overrun \o SubSeq(range, fits + 1, Len(range))]

max_flags == 32

(* load_flags with storage for one name more than max_flags *)
load_flags_with_spare_slot(capacity, table, variable_path, flagmap, into_invalid_names) ==
    LET storage   == [i \in 1..(capacity + 1) |-> <<>>]
        end_names == load_array("string", table, variable_path, storage)
    IN  IF ~end_names.ok
        THEN [result     |-> unexpected(end_names.err),
              flag_names |-> storage,
              sink       |-> into_invalid_names]
        ELSE LET loaded_names == SubSeq(end_names.array, 1, end_names.val - 1)
                 parsed == parse_flags(loaded_names, flagmap, "bidirectional")
             IN  [result     |-> expected(parsed.value),
                  flag_names |-> parsed.flag_names,
                  sink       |-> copy(parsed.invalid_names, into_invalid_names)]

(* load_flags<max_flags>(table, variable_path, flagmap, into_invalid_names) *)
load_flags(capacity, table, variable_path, flagmap, into_invalid_names) ==
    LET storage   == [i \in 1..capacity |-> <<>>]
        end_names == load_array("string", table, variable_path, storage)
    IN  IF ~end_names.ok
        THEN [result     |-> unexpected(end_names.err),
              flag_names |-> storage,
              sink       |-> into_invalid_names]
        ELSE LET loaded_names == SubSeq(end_names.array, 1, end_names.val - 1)
                 parsed == parse_flags(loaded_names, flagmap, "bidirectional")
             IN  [result     |-> expected(parsed.value),
                  flag_names |-> parsed.flag_names,
                  sink       |-> copy(parsed.invalid_names, into_invalid_names)]

----------------------------------------------------------------------------
(* The flag operations, each applied to arguments drawn at the start *)

NoResult == [ok |-> FALSE, err |-> <<>>]

names_node(names) == ArrNode([i \in 1..Len(names) |-> StrNode(names[i])])

(* what a table may hold under the flags key besides an array of strings *)
OddFlagNodes ==
    { IntNode(3), StrNode(n_video),
      ArrNode(<<StrNode(n_video), IntNode(1), StrNode(n_bogus)>>) }

FlagNodes == { names_node(names) : names \in NameLists } \cup OddFlagNodes

FlagConfigs == { ("subsystems" :> node) : node \in FlagNodes } \cup {EmptyTable}

Sinks == {back_inserter} \cup { into_storage(n) : n \in 0..MaxSink }

Capacities == {MaxNames - 1, max_flags}

InitParseFlags ==
    /\ \E names \in NameLists, flagmap \in FlagTables,
          category \in IteratorCategories :
          /\ call = [op |-> "parse_flags", names |-> names,
                     flagmap |-> flagmap, category |-> category]
          /\ flag_names = names
    /\ pc = "ready"
    /\ result = NoResult
    /\ sink = back_inserter
    /\ into_array = <<>>
    /\ NoChain

InitLoadFlags ==
    /\ \E table \in FlagConfigs, flagmap \in FlagTables,
          capacity \in Capacities, out \in Sinks :
          /\ call = [op |-> "load_flags", table |-> table,
                     variable_path |-> <<"subsystems">>,
                     flagmap |-> flagmap, capacity |-> capacity]
          /\ sink = out
    /\ pc = "ready"
    /\ result = NoResult
    /\ flag_names = <<>>
    /\ into_array = <<>>
    /\ NoChain

ParseFlags ==
    /\ pc = "ready"
    /\ call.op = "parse_flags"
    /\ LET parsed == parse_flags(flag_names, call.flagmap, call.category)
       IN  /\ result' = [value |-> parsed.value,
                         invalid_names |-> parsed.invalid_names]
           /\ flag_names' = parsed.flag_names
    /\ pc' = "done"
    /\ UNCHANGED <<call, sink, into_array, chainVars>>

(* a write past the end of the sink's storage is undefined: the call may     *)
(* return as if nothing happened, or the process may die in it               *)
LoadFlags ==
    /\ pc = "ready"
    /\ call.op = "load_flags"
    /\ LET loaded == load_flags(call.capacity, call.table, call.variable_path,
                                call.flagmap, sink)
       IN  /\ result' = loaded.result
           /\ flag_names' = loaded.flag_names
           /\ sink' = loaded.sink
           /\ \/ pc' = "done"
              \/ /\ loaded.sink.overrun # <<>>
                 /\ pc' = "crashed"
    /\ UNCHANGED <<call, into_array, chainVars>>

InitFlags == InitParseFlags \/ InitLoadFlags

NextFlags == ParseFlags \/ LoadFlags

SpecFlags == InitFlags /\ [][NextFlags]_vars

----------------------------------------------------------------------------
(* The value and array loaders, each applied to arguments drawn at the start *)

LeafNodes ==
    { BoolNode(TRUE), BoolNode(FALSE),
      IntNode(-1), IntNode(0), IntNode(7), IntNode(255), IntNode(256),
      FltNode(4), FltNode(5),
      StrNode(n_Game), ArrNode(<<>>), TblNode(EmptyTable) }

ValueConfigs ==
    {EmptyTable}
      \cup { ("x" :> node) : node \in LeafNodes }
      \cup { ("window" :> TblNode("x" :> node)) : node \in LeafNodes }

ValuePaths == { <<"x">>, <<"window", "x">>, <<"x", "y">> }

Defaults(T) ==
    CASE T = "bool" -> {TRUE, FALSE}
      [] T \in IntegerTypes -> {9}
      [] T = "double" -> {Double(3)}
      [] T = "string" -> {n_bogus}

ElementNodes ==
    { IntNode(7), IntNode(-1), IntNode(256), StrNode(n_video), BoolNode(TRUE) }

ArrayNodes ==
    { ArrNode(elems) : elems \in UNION { [1..n -> ElementNodes] : n \in 0..MaxArray } }

ArrayConfigs ==
    {EmptyTable} \cup { ("x" :> node) : node \in ArrayNodes \cup {IntNode(7)} }

(* storage of `capacity' elements: default-constructed strings, or bytes     *)
(* that were never initialised and so hold any value                         *)
Storages(T, capacity) ==
    IF T = "string" THEN { [i \in 1..capacity |-> <<>>] }
    ELSE { [i \in 1..capacity |-> byte] : byte \in {0, 205} }

InitLoadValue ==
    /\ \E T \in ValueTypes, table \in ValueConfigs, path \in ValuePaths :
          call = [op |-> "load_value", T |-> T, table |-> table,
                  variable_path |-> path]
    /\ into_array = <<>>

InitLoadValueOrElse ==
    /\ \E T \in ValueTypes, table \in ValueConfigs, path \in ValuePaths :
          \E default_val \in Defaults(T) :
             call = [op |-> "load_value_or_else", T |-> T, table |-> table,
                     variable_path |-> path, default_val |-> default_val]
    /\ into_array = <<>>

InitLoadArray ==
    \E T \in {"string", "uint8"}, table \in ArrayConfigs,
       capacity \in 0..MaxArray :
       /\ call = [op |-> "load_array", T |-> T, table |-> table,
                  variable_path |-> <<"x">>, capacity |-> capacity]
       /\ into_array \in Storages(T, capacity)

(* size(SDL_Color): a color is a range of four bytes, r g b a *)
size(color) == 4

(* load_value<SDL_Color>(table, variable_path); `color' is the local the     *)
(* function declares without an initializer                                  *)
load_value_SDL_Color(table, variable_path, color) ==
    LET load_result == load_array("uint8", table, variable_path, color)
    IN  IF ~load_result.ok THEN unexpected(load_result.err)
        ELSE expected(load_result.array)

ComponentNodes == { IntNode(7), IntNode(256), IntNode(-1) }

ColorNodes ==
    { ArrNode(elems) :
        elems \in UNION { [1..n -> ComponentNodes] : n \in 0..MaxColor } }

ColorConfigs ==
    {EmptyTable} \cup { ("color" :> node) : node \in ColorNodes \cup {IntNode(7)} }

SubtablePaths == ValuePaths \cup { <<"window">> }

InitLoadColor ==
    \E table \in ColorConfigs :
       /\ call = [op |-> "load_color", table |-> table,
                  variable_path |-> <<"color">>]
       /\ into_array \in Storages("uint8", size(<<>>))

InitSubtable ==
    /\ \E table \in ValueConfigs, path \in SubtablePaths :
          call = [op |-> "subtable", table |-> table, variable_path |-> path]
    /\ into_array = <<>>

InitValues ==
    /\ \/ InitLoadValue \/ InitLoadValueOrElse \/ InitLoadArray
       \/ InitLoadColor \/ InitSubtable
    /\ pc = "ready"
    /\ result = NoResult
    /\ flag_names = <<>>
    /\ sink = back_inserter
    /\ NoChain

LoadValue ==
    /\ pc = "ready"
    /\ call.op = "load_value"
    /\ result' = load_value(call.T, call.table, call.variable_path)
    /\ pc' = "done"
    /\ UNCHANGED <<call, flag_names, sink, into_array, chainVars>>

LoadValueOrElse ==
    /\ pc = "ready"
    /\ call.op = "load_value_or_else"
    /\ result' = expected(load_value_or_else(call.T, call.table,
                                             call.variable_path,
                                             call.default_val))
    /\ pc' = "done"
    /\ UNCHANGED <<call, flag_names, sink, into_array, chainVars>>

LoadArray ==
    /\ pc = "ready"
    /\ call.op = "load_array"
    /\ LET loaded == load_array(call.T, call.table, call.variable_path,
                                into_array)
       IN  /\ result' = [ok |-> loaded.ok,
                         val |-> IF loaded.ok THEN loaded.val ELSE 0,
                         err |-> IF loaded.ok THEN <<>> ELSE loaded.err]
           /\ into_array' = IF loaded.ok THEN loaded.array ELSE into_array
    /\ pc' = "done"
    /\ UNCHANGED <<call, flag_names, sink, chainVars>>

LoadColor ==
    /\ pc = "ready"
    /\ call.op = "load_color"
    /\ result' = load_value_SDL_Color(call.table, call.variable_path,
                                      into_array)
    /\ pc' = "done"
    /\ UNCHANGED <<call, flag_names, sink, into_array, chainVars>>

SubtableAlone ==
    /\ pc = "ready"
    /\ call.op = "subtable"
    /\ result' = subtable(call.table, call.variable_path)
    /\ pc' = "done"
    /\ UNCHANGED <<call, flag_names, sink, into_array, chainVars>>

NextValues ==
    LoadValue \/ LoadValueOrElse \/ LoadArray \/ LoadColor \/ SubtableAlone

SpecValues == InitValues /\ [][NextValues]_vars

----------------------------------------------------------------------------
(* The steps a chain is built from.  Each captures one output variable; the  *)
(* callable it returns takes the table and gives the table back or fails.    *)

Unassigned == [assigned |-> FALSE]
Assigned(v) == [assigned |-> TRUE, val |-> v]

(* load with the assignment ahead of the test of the result *)
load_assigning_first(T, variable_path, output, table, vals) ==
    LET loaded == load_value(T, table, variable_path)
        written == [v \in DOMAIN vals |->
                       IF v = output
                       THEN Assigned(IF loaded.ok THEN loaded.val ELSE 0)
                       ELSE vals[v]]
    IN  IF ~loaded.ok
        THEN [result |-> unexpected(loaded.err), outputs |-> written]
        ELSE [result |-> expected(table), outputs |-> written]

(* load(variable_path, output) *)
load(T, variable_path, output, table, vals) ==
    LET loaded == load_value(T, table, variable_path)
    IN  IF ~loaded.ok
        THEN [result |-> unexpected(loaded.err), outputs |-> vals]
        ELSE [result |-> expected(table),
              outputs |-> [v \in DOMAIN vals |->
                             IF v = output THEN Assigned(loaded.val)
                             ELSE vals[v]]]

(* load_or_else that hands on an empty table in place of its own *)
load_or_else_losing_table(T, variable_path, output, default_val, table, vals) ==
    [result |-> EmptyTable,
     outputs |-> [v \in DOMAIN vals |->
                    IF v = output
                    THEN Assigned(load_value_or_else(T, table, variable_path,
                                                     default_val))
                    ELSE vals[v]]]

(* load_or_else(variable_path, output, default_val): returns the table *)
load_or_else(T, variable_path, output, default_val, table, vals) ==
    [result |-> table,
     outputs |-> [v \in DOMAIN vals |->
                    IF v = output
                    THEN Assigned(load_value_or_else(T, table, variable_path,
                                                     default_val))
                    ELSE vals[v]]]

(* _load_flags that leaves the invalid names out of the caller's sink *)
_load_flags_unreported(capacity, flagmap, variable_path, output, table, vals, into_invalid_names) ==
    LET loaded == load_flags(capacity, table, variable_path, flagmap,
                             into_invalid_names)
    IN  IF ~loaded.result.ok
        THEN [result |-> unexpected(loaded.result.err), outputs |-> vals,
              sink |-> into_invalid_names]
        ELSE [result |-> expected(table),
              outputs |-> [v \in DOMAIN vals |->
                             IF v = output THEN Assigned(loaded.result.val)
                             ELSE vals[v]],
              sink |-> into_invalid_names]

(* _load_flags(load_flags, variable_path, output, into_invalid_names) *)
_load_flags(capacity, flagmap, variable_path, output, table, vals, into_invalid_names) ==
    LET loaded == load_flags(capacity, table, variable_path, flagmap,
                             into_invalid_names)
    IN  IF ~loaded.result.ok
        THEN [result |-> unexpected(loaded.result.err), outputs |-> vals,
              sink |-> loaded.sink]
        ELSE [result |-> expected(table),
              outputs |-> [v \in DOMAIN vals |->
                             IF v = output THEN Assigned(loaded.result.val)
                             ELSE vals[v]],
              sink |-> loaded.sink]

SDL_WINDOWPOS_UNDEFINED == 536805376

(* a step of a chain: the combinator and the callable it is given *)
Load(T, key, output) ==
    [comb |-> "and_then", fn |-> "load", T |-> T, path |-> <<key>>,
     output |-> output, default_val |-> 0, flagmap |-> as_window_flag]
LoadOrElse(T, key, output, default_val) ==
    [comb |-> "map", fn |-> "load_or_else", T |-> T, path |-> <<key>>,
     output |-> output, default_val |-> default_val,
     flagmap |-> as_window_flag]
LoadFlagsInto(flagmap, key, output) ==
    [comb |-> "and_then", fn |-> "_load_flags", T |-> "uint32",
     path |-> <<key>>, output |-> output, default_val |-> 0,
     flagmap |-> flagmap]

(* the chain of load_window, and the chain of the point example's load *)
Chain(op) ==
    CASE op = "load_window" ->
            << Load("string", "title", "title"),
               Load("uint32", "width", "width"),
               Load("uint32", "height", "height"),
               LoadFlagsInto(as_window_flag, "flags", "flags"),
               LoadOrElse("int", "x", "x", SDL_WINDOWPOS_UNDEFINED),
               LoadOrElse("int", "y", "y", SDL_WINDOWPOS_UNDEFINED) >>
      [] op = "load_point" ->
            << Load("int", "x", "x"), Load("int", "y", "y") >>
      [] op = "load_renderer" ->
            << LoadFlagsInto(as_renderer_flag, "flags", "flags"),
               LoadOrElse("int", "driver_index", "driver_index", -1) >>
      [] op = "init_sdl" ->
            << LoadFlagsInto(as_subsystem_flag, "subsystems", "flags") >>

ChainOps == {"load_window", "load_point", "load_renderer", "init_sdl"}

(* the main programs of test.cpp and examples/sdl/sketch.cpp *)
MainOps == {"test_main", "sketch_main"}

(* the loaders that read the whole configuration in one function *)
ConfigOps == {"make_window_from_config", "make_renderer_from_config"}

OutputVars(op) ==
    CASE op = "load_window" ->
            {"title", "width", "height", "flags", "x", "y", "window_output"}
      [] op = "load_point" -> {"x", "y"}
      [] op = "load_renderer" -> {"flags", "driver_index", "renderer_output"}
      [] op = "init_sdl" -> {"flags"}
      [] op \in ConfigOps -> {}
      [] op \in MainOps -> {"window", "renderer"}

(* invoking the callable of a step on a table *)
invoke(f, capacity, table, vals, into_invalid_names) ==
    CASE f.fn = "load" ->
            LET r == load(f.T, f.path, f.output, table, vals)
            IN  [result |-> r.result, outputs |-> r.outputs,
                 sink |-> into_invalid_names]
      [] f.fn = "load_or_else" ->
            LET r == load_or_else(f.T, f.path, f.output, f.default_val,
                                  table, vals)
            IN  [result |-> r.result, outputs |-> r.outputs,
                 sink |-> into_invalid_names]
      [] f.fn = "_load_flags" ->
            _load_flags(capacity, f.flagmap, f.path, f.output, table, vals,
                        into_invalid_names)

(* and_then that goes on after a failure, handing the step an empty table *)
and_then_resuming(current, f, capacity, vals, into_invalid_names) ==
    LET ran == invoke(f, capacity,
                      IF current.ok THEN current.val ELSE EmptyTable,
                      vals, into_invalid_names)
    IN  [result |-> ran.result, outputs |-> ran.outputs, sink |-> ran.sink,
         ran |-> TRUE]

(* expected::and_then(f): a failure passes through, a table is handed to f *)
and_then(current, f, capacity, vals, into_invalid_names) ==
    IF ~current.ok
    THEN [result |-> current, outputs |-> vals, sink |-> into_invalid_names,
          ran |-> FALSE]
    ELSE LET ran == invoke(f, capacity, current.val, vals, into_invalid_names)
         IN  [result |-> ran.result, outputs |-> ran.outputs,
              sink |-> ran.sink, ran |-> TRUE]

(* map that runs f after a failure too and so replaces the failure *)
map_recovering(current, f, capacity, vals, into_invalid_names) ==
    LET ran == invoke(f, capacity,
                      IF current.ok THEN current.val ELSE EmptyTable,
                      vals, into_invalid_names)
    IN  [result |-> expected(ran.result), outputs |-> ran.outputs,
         sink |-> ran.sink, ran |-> TRUE]

(* expected::map(f): a failure passes through, else f's table is the value *)
map(current, f, capacity, vals, into_invalid_names) ==
    IF ~current.ok
    THEN [result |-> current, outputs |-> vals, sink |-> into_invalid_names,
          ran |-> FALSE]
    ELSE LET ran == invoke(f, capacity, current.val, vals, into_invalid_names)
         IN  [result |-> expected(ran.result), outputs |-> ran.outputs,
              sink |-> ran.sink, ran |-> TRUE]

----------------------------------------------------------------------------
(* The loaders that read a configuration file by name.  toml::parse_file     *)
(* has succeeded; `table' is the parsed file.                                *)

config_path == "config.toml"

(* toml::array::is_homogeneous(type): false for an empty array *)
is_homogeneous(arr, kind) ==
    /\ Len(arr) > 0
    /\ \A i \in 1..Len(arr) : arr[i].kind = kind

(* load_flag_names(config_path, variable_path, flag_names): the number of    *)
(* names and the names written through flag_names                            *)
load_flag_names(table, variable_path) ==
    LET flag_node == at_path(table, variable_path)
    IN  IF flag_node.kind = "none"
        THEN [ok |-> TRUE, val |-> 0, flag_names |-> <<>>]
        ELSE IF flag_node.kind # "array"
        THEN unexpected(<<PathPart(variable_path), Lit(" must be an array")>>)
        ELSE IF ~is_homogeneous(flag_node.val, "string")
        THEN unexpected(<<Lit("all subsytem names in "),
                          PathPart(variable_path), Lit(" "),
                          Lit("must be strings")>>)
        ELSE [ok |-> TRUE, val |-> Len(flag_node.val),
              flag_names |-> [i \in 1..Len(flag_node.val) |->
                                 flag_node.val[i].val]]

(* ranges::accumulate(flags, 0u, join) over std::uint32_t *)
RECURSIVE accumulate(_, _, _)
accumulate(names, flagmap, init) ==
    IF names = <<>> THEN init
    ELSE accumulate(Tail(names), flagmap,
                    bit_or(init, flagmap[Head(names)], 32))

(* parse_flags(flag_names, name_is_valid, as_flag, invalid_names) of         *)
(* parsing.hpp, with the validator and the transformer of one table          *)
parsing_parse_flags(names, flagmap, invalid_names) ==
    LET lower_names == [i \in 1..Len(names) |-> _strlower(names[i])]
        name_is_valid(name) == name \in DOMAIN flagmap.map
        name_is_invalid(name) == ~name_is_valid(name)
    IN  [value |-> accumulate(SelectSeq(lower_names, name_is_valid),
                              flagmap.map, {}),
         sink  |-> copy(SelectSeq(lower_names, name_is_invalid),
                        invalid_names)]

(* load_window_flags(config_path, invalid_names) *)
load_window_flags(table, invalid_names) ==
    LET flag_result == load_flag_names(table, <<"window", "flags">>)
    IN  IF ~flag_result.ok
        THEN [result |-> unexpected(flag_result.err), sink |-> invalid_names]
        ELSE LET parsed == parsing_parse_flags(flag_result.flag_names,
                                               as_window_flag, invalid_names)
             IN  [result |-> expected(parsed.value), sink |-> parsed.sink]

(* load_renderer_flags(config_path, invalid_names) *)
load_renderer_flags(table, invalid_names) ==
    LET flag_result == load_flag_names(table, <<"renderer", "flags">>)
    IN  IF ~flag_result.ok
        THEN [result |-> unexpected(flag_result.err), sink |-> invalid_names]
        ELSE LET parsed == parsing_parse_flags(flag_result.flag_names,
                                               as_renderer_flag, invalid_names)
             IN  [result |-> expected(parsed.value), sink |-> parsed.sink]

(* table[key]: the node, or the empty node view *)
subscript(table, key) == IF key \in DOMAIN table THEN table[key] ELSE None

(* a return ahead of the call to the runtime *)
Returns(err, into_invalid_names) ==
    [create |-> FALSE, result |-> unexpected(err), sink |-> into_invalid_names]

(* make_window_from_config(config_path, invalid_flag_names) up to the call   *)
(* of SDL_CreateWindow: the early return, or the arguments of the call.      *)
(* y is read through window["x"].as_integer(), a null pointer when there is  *)
(* no x: `undefined' marks that read.  width and height pass through         *)
(* std::uint32_t into the int parameters, which gives back the 32-bit value. *)
make_window_from_config(table, invalid_flag_names) ==
    LET flags  == load_window_flags(table, invalid_flag_names)
        window == subscript(table, "window").val
        title  == subscript(window, "title")
        width  == subscript(window, "width")
        height == subscript(window, "height")
        x      == subscript(window, "x")
        y      == subscript(window, "y")
    IN  IF ~flags.result.ok THEN Returns(flags.result.err, flags.sink)
        ELSE IF subscript(table, "window").kind = "none"
        THEN Returns(<<Lit("config at "), Lit(config_path),
                       Lit("has no window settings")>>, flags.sink)
        ELSE IF subscript(table, "window").kind # "table"
        THEN Returns(<<Lit("window config settings must be a table!")>>,
                     flags.sink)
        ELSE IF title.kind = "none"
        THEN Returns(<<Lit("window config must have a title!")>>, flags.sink)
        ELSE IF title.kind # "string"
        THEN Returns(<<Lit("window.title must be a string!")>>, flags.sink)
        ELSE IF width.kind = "none"
        THEN Returns(<<Lit("window config must have a width!")>>, flags.sink)
        ELSE IF width.kind # "integer"
        THEN Returns(<<Lit("window.width must be an integer")>>, flags.sink)
        ELSE IF height.kind = "none"
        THEN Returns(<<Lit("window config must have a height!")>>, flags.sink)
        ELSE IF height.kind # "integer"
        THEN Returns(<<Lit("window.height must be an integer")>>, flags.sink)
        ELSE IF x.kind \notin {"integer", "none"}
        THEN Returns(<<Lit("window.x must be an integer")>>, flags.sink)
        ELSE IF y.kind \notin {"integer", "none"}
        THEN Returns(<<Lit("window.y must be an integer")>>, flags.sink)
        ELSE [create |-> TRUE, sink |-> flags.sink,
              undefined |-> y.kind = "integer" /\ x.kind = "none",
              title |-> title.val,
              x |-> IF x.kind = "integer" THEN x.val
                    ELSE SDL_WINDOWPOS_UNDEFINED,
              y |-> IF y.kind = "integer" /\ x.kind = "integer" THEN x.val
                    ELSE SDL_WINDOWPOS_UNDEFINED,
              width |-> width.val, height |-> height.val,
              flags |-> flags.result.val]

(* make_renderer_from_config(config_path, window, invalid_flag_names) up to  *)
(* the call of SDL_CreateRenderer                                            *)
make_renderer_from_config(table, invalid_flag_names) ==
    LET renderer     == subscript(table, "renderer").val
        driver_index == subscript(renderer, "driver_index")
        flags        == load_renderer_flags(table, invalid_flag_names)
    IN  IF subscript(table, "renderer").kind = "none"
        THEN Returns(<<Lit("config at "), Lit(config_path),
                       Lit(" has no renderer settings")>>, invalid_flag_names)
        ELSE IF subscript(table, "renderer").kind # "table"
        THEN Returns(<<Lit("renderer config settings must be a table!")>>,
                     invalid_flag_names)
        ELSE IF driver_index.kind \notin {"integer", "none"}
        THEN Returns(<<Lit("renderer.driver_index must be an integer")>>,
                     invalid_flag_names)
        ELSE IF ~flags.result.ok THEN Returns(flags.result.err, flags.sink)
        ELSE [create |-> TRUE, sink |-> flags.sink,
              driver_index |-> IF driver_index.kind = "integer"
                               THEN driver_index.val ELSE -1,
              flags |-> flags.result.val]

(* what a read through a null pointer may leave in an int *)
IndeterminateInts == {0, 9, SDL_WINDOWPOS_UNDEFINED}

----------------------------------------------------------------------------
(* The chains, one combinator at a time *)

Opt(key, node) == IF node.kind = "none" THEN EmptyTable ELSE (key :> node)

WindowTables ==
    { Opt("title", title) @@ Opt("width", width) @@ Opt("height", height) @@
      Opt("flags", flags) @@ Opt("x", x) @@ Opt("y", y) :
        title  \in {None, StrNode(n_Game), IntNode(7)},
        width  \in {None, IntNode(800), IntNode(-1), BoolNode(TRUE)},
        height \in {None, IntNode(600), StrNode(n_Game)},
        flags  \in {None, IntNode(3), names_node(<<>>), names_node(<<n_shown>>),
                    names_node(<<n_Bogus, n_resizable>>),
                    names_node(<<n_bogus, n_junk, n_shown>>)},
        x      \in {None, IntNode(7), BoolNode(TRUE)},
        y      \in {None, IntNode(9), StrNode(n_Game)} }

WindowConfigs ==
    {EmptyTable, ("window" :> IntNode(7))}
      \cup { ("window" :> TblNode(window)) : window \in WindowTables }

PointTables ==
    { Opt("x", x) @@ Opt("y", y) :
        x \in {None, IntNode(7), StrNode(n_Game), FltNode(4)},
        y \in {None, IntNode(-1), BoolNode(TRUE), FltNode(5)} }

PointConfigs ==
    {EmptyTable} \cup { ("player-spawn" :> TblNode(point)) : point \in PointTables }

InitLoadWindow ==
    /\ \E table \in WindowConfigs :
          call = [op |-> "load_window", table |-> table,
                  variable_path |-> <<"window">>, capacity |-> max_flags]
    /\ sink \in {back_inserter, into_storage(1)}

InitLoadPoint ==
    /\ \E table \in PointConfigs :
          call = [op |-> "load_point", table |-> table,
                  variable_path |-> <<"player-spawn">>, capacity |-> max_flags]
    /\ sink = back_inserter

RendererTables ==
    { Opt("flags", flags) @@ Opt("driver_index", driver_index) :
        flags \in {None, IntNode(3), names_node(<<>>),
                   names_node(<<n_software>>),
                   names_node(<<n_Bogus, n_accelerated>>)},
        driver_index \in {None, IntNode(0), IntNode(1), StrNode(n_Game)} }

RendererConfigs ==
    {EmptyTable, ("renderer" :> IntNode(7))}
      \cup { ("renderer" :> TblNode(renderer)) : renderer \in RendererTables }

SystemTables ==
    { Opt("subsystems", subsystems) :
        subsystems \in {None, IntNode(3), names_node(<<>>),
                        names_node(<<n_video>>),
                        names_node(<<n_VIDEO, n_bogus, n_audio>>)} }

SystemConfigs ==
    {EmptyTable, ("system" :> IntNode(7))}
      \cup { ("system" :> TblNode(system)) : system \in SystemTables }

InitLoadRenderer ==
    /\ \E table \in RendererConfigs :
          call = [op |-> "load_renderer", table |-> table,
                  variable_path |-> <<"renderer">>, capacity |-> max_flags]
    /\ sink \in {back_inserter, into_storage(1)}

InitInitSdl ==
    /\ \E table \in SystemConfigs :
          call = [op |-> "init_sdl", table |-> table,
                  variable_path |-> <<"system">>, capacity |-> max_flags]
    /\ sink \in {back_inserter, into_storage(1)}

InitMakeWindowFromConfig ==
    /\ \E table \in WindowConfigs :
          call = [op |-> "make_window_from_config", table |-> table]
    /\ sink \in {back_inserter, into_storage(1)}

InitMakeRendererFromConfig ==
    /\ \E table \in RendererConfigs :
          call = [op |-> "make_renderer_from_config", table |-> table]
    /\ sink \in {back_inserter, into_storage(1)}

(* what the configuration file holds under system, window and renderer *)
MainSections ==
    [system   |-> << None,
                     TblNode("subsystems" :> names_node(<<n_video, n_bogus>>)),
                     TblNode("subsystems" :> IntNode(3)) >>,
     window   |-> << None,
                     TblNode(("title" :> StrNode(n_Game))
                               @@ ("width" :> IntNode(800))
                               @@ ("height" :> IntNode(600))
                               @@ ("flags" :> names_node(<<n_shown, n_junk>>))),
                     TblNode(("title" :> StrNode(n_Game))
                               @@ ("width" :> IntNode(800))
                               @@ ("height" :> IntNode(600))
                               @@ ("x" :> IntNode(7)) @@ ("y" :> IntNode(9))),
                     TblNode("title" :> StrNode(n_Game)) >>,
     renderer |-> << None, TblNode(EmptyTable),
                     TblNode("flags" :> names_node(<<n_software, n_Bogus>>)) >>]

MainConfigs ==
    { Opt("system", MainSections.system[i])
        @@ Opt("window", MainSections.window[j])
        @@ Opt("renderer", MainSections.renderer[k]) :
        i \in DOMAIN MainSections.system, j \in DOMAIN MainSections.window,
        k \in DOMAIN MainSections.renderer }

InitMain ==
    /\ \E op \in MainOps, table \in MainConfigs :
          call = [op |-> op, table |-> table]
    /\ sink = back_inserter

Init ==
    /\ \/ InitMain
       \/ InitLoadWindow
       \/ InitLoadPoint
       \/ InitLoadRenderer
       \/ InitInitSdl
       \/ InitMakeWindowFromConfig
       \/ InitMakeRendererFromConfig
    /\ pc = "ready"
    /\ result = NoResult
    /\ flag_names = <<>>
    /\ into_array = <<>>
    /\ step = 0
    /\ outputs = [v \in OutputVars(call.op) |-> Unassigned]
    /\ invoked = <<>>
    /\ runtime = <<>>

(* subtable(table, variable_path), the head of the chain *)
Subtable ==
    /\ pc = "ready"
    /\ call.op \in ChainOps
    /\ result' = subtable(call.table, call.variable_path)
    /\ pc' = "chain"
    /\ step' = 1
    /\ UNCHANGED <<call, flag_names, sink, into_array, outputs, invoked, runtime>>

(* what a combinator leaves behind; a step that wrote past the end of the    *)
(* sink may also have killed the process                                     *)
Combined(after) ==
    /\ result' = after.result
    /\ outputs' = after.outputs
    /\ sink' = after.sink
    /\ invoked' = IF after.ran THEN Append(invoked, step) ELSE invoked
    /\ step' = step + 1
    /\ \/ pc' = pc
       \/ /\ Len(after.sink.overrun) > Len(sink.overrun)
          /\ pc' = "crashed"
    /\ UNCHANGED <<call, flag_names, into_array, runtime>>

AndThen ==
    /\ pc = "chain"
    /\ step <= Len(Chain(call.op))
    /\ Chain(call.op)[step].comb = "and_then"
    /\ Combined(and_then(result, Chain(call.op)[step], call.capacity,
                         outputs, sink))

Map ==
    /\ pc = "chain"
    /\ step <= Len(Chain(call.op))
    /\ Chain(call.op)[step].comb = "map"
    /\ Combined(map(result, Chain(call.op)[step], call.capacity,
                    outputs, sink))

(* the runtime's error string *)
SDL_GetError == <<Lit("No available video device")>>

(* the end of load_window: a failed chain is returned as it is; else the     *)
(* window is created from the locals and the table is returned               *)
CreateWindow ==
    /\ pc = "chain"
    /\ call.op = "load_window"
    /\ step = Len(Chain(call.op)) + 1
    /\ pc' = "done"
    /\ IF ~result.ok
       THEN UNCHANGED <<result, outputs, runtime>>
       ELSE \E created \in BOOLEAN :
               /\ runtime' = Append(runtime,
                     [fn |-> "SDL_CreateWindow", created |-> created,
                      title |-> outputs["title"], x |-> outputs["x"],
                      y |-> outputs["y"], width |-> outputs["width"],
                      height |-> outputs["height"],
                      flags |-> outputs["flags"]])
               /\ outputs' = [v \in DOMAIN outputs |->
                                 IF v = "window_output"
                                 THEN Assigned(IF created THEN "window"
                                               ELSE "NULL")
                                 ELSE outputs[v]]
               /\ result' = IF created THEN expected(call.table)
                            ELSE unexpected(SDL_GetError)
    /\ UNCHANGED <<call, flag_names, sink, into_array, step, invoked>>

(* the end of the point example's load: the error, or the point *)
ReturnPoint ==
    /\ pc = "chain"
    /\ call.op = "load_point"
    /\ step = Len(Chain(call.op)) + 1
    /\ pc' = "done"
    /\ result' = IF ~result.ok THEN unexpected(result.err)
                 ELSE expected([x |-> outputs["x"], y |-> outputs["y"]])
    /\ UNCHANGED <<call, flag_names, sink, into_array, step, outputs,
                   invoked, runtime>>

(* the end of load_renderer *)
CreateRenderer ==
    /\ pc = "chain"
    /\ call.op = "load_renderer"
    /\ step = Len(Chain(call.op)) + 1
    /\ pc' = "done"
    /\ IF ~result.ok
       THEN UNCHANGED <<result, outputs, runtime>>
       ELSE \E created \in BOOLEAN :
               /\ runtime' = Append(runtime,
                     [fn |-> "SDL_CreateRenderer", created |-> created,
                      driver_index |-> outputs["driver_index"],
                      flags |-> outputs["flags"]])
               /\ outputs' = [v \in DOMAIN outputs |->
                                 IF v = "renderer_output"
                                 THEN Assigned(IF created THEN "renderer"
                                               ELSE "NULL")
                                 ELSE outputs[v]]
               /\ result' = IF created THEN expected(call.table)
                            ELSE unexpected(SDL_GetError)
    /\ UNCHANGED <<call, flag_names, sink, into_array, step, invoked>>

(* the end of init_sdl *)
InitSdl ==
    /\ pc = "chain"
    /\ call.op = "init_sdl"
    /\ step = Len(Chain(call.op)) + 1
    /\ pc' = "done"
    /\ IF ~result.ok
       THEN UNCHANGED <<result, runtime>>
       ELSE \E created \in BOOLEAN :
               /\ runtime' = Append(runtime,
                     [fn |-> "SDL_Init", created |-> created,
                      flags |-> outputs["flags"]])
               /\ result' = IF created THEN expected(call.table)
                            ELSE unexpected(SDL_GetError)
    /\ UNCHANGED <<call, flag_names, sink, into_array, step, outputs, invoked>>

(* what a whole-file loader leaves behind when it returned; a write past     *)
(* the end of the sink may instead have killed the process                   *)
Returned(made, returned) ==
    /\ sink' = made.sink
    /\ \/ /\ pc' = "done"
          /\ result' = returned
       \/ /\ Len(made.sink.overrun) > Len(sink.overrun)
          /\ pc' = "crashed"
          /\ result' = NoResult
    /\ UNCHANGED <<call, flag_names, into_array, step, outputs, invoked>>

(* make_window_from_config as a whole; the read through the null pointer     *)
(* either kills the process or leaves some int in y                          *)
MakeWindowFromConfig ==
    /\ pc = "ready"
    /\ call.op = "make_window_from_config"
    /\ LET made == make_window_from_config(call.table, sink)
       IN  IF ~made.create
           THEN /\ Returned(made, made.result)
                /\ UNCHANGED runtime
           ELSE \/ \E created \in BOOLEAN :
                   \E y \in IF made.undefined THEN IndeterminateInts
                             ELSE {made.y} :
                      /\ runtime' = Append(runtime,
                            [fn |-> "SDL_CreateWindow", created |-> created,
                             title |-> Assigned(made.title),
                             x |-> Assigned(made.x), y |-> Assigned(y),
                             width |-> Assigned(made.width),
                             height |-> Assigned(made.height),
                             flags |-> Assigned(made.flags)])
                      /\ Returned(made, IF created THEN expected("window")
                                        ELSE unexpected(SDL_GetError))
                \/ /\ made.undefined
                   /\ pc' = "crashed"
                   /\ result' = NoResult
                   /\ sink' = made.sink
                   /\ UNCHANGED <<call, flag_names, into_array, step,
                                  outputs, invoked, runtime>>

(* make_renderer_from_config as a whole *)
MakeRendererFromConfig ==
    /\ pc = "ready"
    /\ call.op = "make_renderer_from_config"
    /\ LET made == make_renderer_from_config(call.table, sink)
       IN  IF ~made.create
           THEN /\ Returned(made, made.result)
                /\ UNCHANGED runtime
           ELSE \E created \in BOOLEAN :
                   /\ runtime' = Append(runtime,
                         [fn |-> "SDL_CreateRenderer", created |-> created,
                          driver_index |-> Assigned(made.driver_index),
                          flags |-> Assigned(made.flags)])
                   /\ Returned(made,
                         IF created THEN expected("renderer")
                         ELSE unexpected(<<Lit("Couldn't create renderer: ")>>
                                           \o SDL_GetError))

(* load_subsystem_flags(config_path, invalid_names) *)
load_subsystem_flags(table, invalid_names) ==
    LET subsystems_result == load_flag_names(table, <<"system", "subsystems">>)
    IN  IF ~subsystems_result.ok
        THEN [result |-> unexpected(subsystems_result.err),
              sink |-> invalid_names]
        ELSE LET parsed == parsing_parse_flags(subsystems_result.flag_names,
                                               as_subsystem_flag,
                                               invalid_names)
             IN  [result |-> expected(parsed.value), sink |-> parsed.sink]

(* operator* of an expected: the value, or with no value anything at all *)
Deref(r) == IF r.ok THEN r.val ELSE "indeterminate"

(* the process dies in an undefined read *)
MainCrashes ==
    /\ pc' = "crashed"
    /\ UNCHANGED <<call, result, flag_names, sink, into_array, step, outputs,
                   invoked, runtime>>

(* a main program returns with its exit status after cleanup's calls *)
MainReturns(status, calls) ==
    /\ pc' = "done"
    /\ result' = status
    /\ runtime' = runtime \o calls

EXIT_SUCCESS == expected("EXIT_SUCCESS")
EXIT_FAILURE == unexpected(<<Lit("EXIT_FAILURE")>>)

(* init_sdl_from_config and the test of its result: both programs return     *)
(* EXIT_FAILURE when it fails; the invalid names are logged and dropped      *)
MainInitSdl ==
    /\ pc = "ready"
    /\ call.op \in MainOps
    /\ \E flags \in {load_subsystem_flags(call.table, sink).result} :
          IF ~flags.ok
          THEN MainReturns(EXIT_FAILURE, <<>>) /\ step' = step
          ELSE \E created \in BOOLEAN :
               \E init \in {[fn |-> "SDL_Init", created |-> created,
                             flags |-> Assigned(flags.val),
                             handles |-> <<>>]} :
                  IF created
                  THEN /\ pc' = "main"
                       /\ step' = 1
                       /\ result' = expected(TRUE)
                       /\ runtime' = Append(runtime, init)
                  ELSE /\ MainReturns(EXIT_FAILURE, <<init>>)
                       /\ step' = step
    /\ UNCHANGED <<call, flag_names, sink, into_array, outputs, invoked>>

(* the call of SDL_CreateWindow that make_window_from_config makes *)
WindowCall(made, created, y) ==
    [fn |-> "SDL_CreateWindow", created |-> created,
     title |-> Assigned(made.title), x |-> Assigned(made.x),
     y |-> Assigned(IF made.undefined THEN y ELSE made.y),
     width |-> Assigned(made.width), height |-> Assigned(made.height),
     flags |-> Assigned(made.flags), handles |-> <<>>]

(* the statement that makes the window.  test.cpp logs a failure and goes    *)
(* on; sketch.cpp cleans up and returns.  The invalid names are logged and   *)
(* dropped.                                                                  *)
MainMakeWindow ==
    /\ pc = "main"
    /\ step = 1
    /\ \E made \in {make_window_from_config(call.table, sink)} :
          \/ /\ made.create
             /\ made.undefined
             /\ MainCrashes
          \/ \E created \in BOOLEAN :
             \E y \in IF made.create /\ made.undefined
                      THEN IndeterminateInts
                      ELSE {SDL_WINDOWPOS_UNDEFINED} :
             \E window \in {IF ~made.create THEN made.result
                            ELSE IF created THEN expected("window")
                            ELSE unexpected(SDL_GetError)} :
             \E calls \in {IF ~made.create THEN <<>>
                           ELSE <<WindowCall(made, created, y)>>} :
                /\ outputs' = [v \in DOMAIN outputs |->
                                  IF v = "window" THEN Assigned(window)
                                  ELSE outputs[v]]
                /\ IF call.op = "sketch_main" /\ ~window.ok
                   THEN /\ MainReturns(EXIT_FAILURE,
                              calls \o <<[fn |-> "SDL_Quit",
                                          handles |-> <<>>]>>)
                        /\ step' = step
                   ELSE /\ runtime' = runtime \o calls
                        /\ step' = 2
                        /\ UNCHANGED <<pc, result>>
                /\ UNCHANGED <<call, flag_names, sink, into_array, invoked>>

(* the statement that makes the renderer; test.cpp passes *window *)
MainMakeRenderer ==
    /\ pc = "main"
    /\ step = 2
    /\ \E window \in {outputs["window"].val} :
       \E made \in {make_renderer_from_config(call.table, sink)} :
          \/ /\ ~window.ok
             /\ MainCrashes
          \/ \E created \in BOOLEAN :
             \E renderer \in
                   {IF ~made.create THEN made.result
                    ELSE IF created THEN expected("renderer")
                    ELSE unexpected(<<Lit("Couldn't create renderer: ")>>
                                      \o SDL_GetError)} :
             \E calls \in
                   {IF ~made.create THEN <<>>
                    ELSE <<[fn |-> "SDL_CreateRenderer", created |-> created,
                            driver_index |-> Assigned(made.driver_index),
                            flags |-> Assigned(made.flags),
                            handles |-> <<Deref(window)>>]>>} :
                /\ outputs' = [v \in DOMAIN outputs |->
                                  IF v = "renderer" THEN Assigned(renderer)
                                  ELSE outputs[v]]
                /\ sink' = made.sink
                /\ IF call.op = "sketch_main" /\ ~renderer.ok
                   THEN /\ MainReturns(EXIT_FAILURE,
                              calls \o <<[fn |-> "SDL_DestroyWindow",
                                          handles |-> <<Deref(window)>>],
                                         [fn |-> "SDL_Quit",
                                          handles |-> <<>>]>>)
                        /\ step' = step
                   ELSE /\ runtime' = runtime \o calls
                        /\ step' = 3
                        /\ UNCHANGED <<pc, result>>
                /\ UNCHANGED <<call, flag_names, into_array, invoked>>

(* drawing: SDL_SetRenderDrawColor, SDL_RenderClear, SDL_RenderPresent *)
MainDraw ==
    /\ pc = "main"
    /\ step = 3
    /\ \E renderer \in {outputs["renderer"].val} :
          \/ /\ ~renderer.ok
             /\ MainCrashes
          \/ /\ runtime' = runtime \o
                   <<[fn |-> "SDL_SetRenderDrawColor",
                      handles |-> <<Deref(renderer)>>],
                     [fn |-> "SDL_RenderClear",
                      handles |-> <<Deref(renderer)>>],
                     [fn |-> "SDL_RenderPresent",
                      handles |-> <<Deref(renderer)>>]>>
             /\ step' = 4
             /\ UNCHANGED <<call, pc, result, flag_names, sink, into_array,
                            outputs, invoked>>

(* SDL_DestroyRenderer, SDL_DestroyWindow, SDL_Quit and the return *)
MainCleanup ==
    /\ pc = "main"
    /\ step = 4
    /\ \E window \in {outputs["window"].val} :
       \E renderer \in {outputs["renderer"].val} :
          \/ /\ ~window.ok \/ ~renderer.ok
             /\ MainCrashes
          \/ /\ MainReturns(EXIT_SUCCESS,
                   <<[fn |-> "SDL_DestroyRenderer",
                      handles |-> <<Deref(renderer)>>],
                     [fn |-> "SDL_DestroyWindow",
                      handles |-> <<Deref(window)>>],
                     [fn |-> "SDL_Quit", handles |-> <<>>]>>)
             /\ UNCHANGED <<call, flag_names, sink, into_array, step,
                            outputs, invoked>>

Next ==
    \/ MainInitSdl
    \/ MainMakeWindow
    \/ MainMakeRenderer
    \/ MainDraw
    \/ MainCleanup
    \/ Subtable
    \/ AndThen
    \/ Map
    \/ CreateWindow
    \/ ReturnPoint
    \/ CreateRenderer
    \/ InitSdl
    \/ MakeWindowFromConfig
    \/ MakeRendererFromConfig

Spec == Init /\ [][Next]_vars

----------------------------------------------------------------------------
(* Reference definitions for the flag claims *)

(* the letters of two names agree up to case *)
SameLetter(a, b) ==
    \/ a = b
    \/ \E i \in 1..Len(UpperCase) :
          {a, b} \subseteq {UpperCase[i], LowerCase[i]}
SameName(a, b) ==
    /\ Len(a) = Len(b)
    /\ \A i \in 1..Len(a) : SameLetter(a[i], b[i])
SameNames(a, b) ==
    /\ Len(a) = Len(b)
    /\ \A i \in 1..Len(a) : SameName(a[i], b[i])

(* the key of the table a name matches without regard to case, if any *)
Matches(name, flagmap) ==
    { key \in DOMAIN flagmap.map : key = _strlower(key) /\ SameName(name, key) }

(* the OR of the table's bits over the names that match a key *)
FlagOr(names, flagmap) ==
    UNION { flagmap.map[key] :
              key \in UNION { Matches(names[i], flagmap) : i \in 1..Len(names) } }

(* the lowercased names that are not keys of the table, in input order *)
IsUnknown(name, flagmap) == _strlower(name) \notin DOMAIN flagmap.map
UnknownNames(names, flagmap) ==
    LET kept == SelectSeq(names, LAMBDA n : IsUnknown(n, flagmap))
    IN  [i \in 1..Len(kept) |-> _strlower(kept[i])]

ParseFlagsDone == pc = "done" /\ call.op = "parse_flags"

\* C1: parse_flags(N, F).value is the OR, seeded at zero, of F[lowercase(n)]
\* over the names of N whose lowercase form is a key of F; inputs that differ
\* only in letter case give the same value; an empty N gives value 0 and an
\* empty invalid_names.
C1_ValueIsOrOfKnownFlags ==
    ParseFlagsDone =>
        /\ result.value = FlagOr(call.names, call.flagmap)
        /\ \A other \in NameLists :
              SameNames(other, call.names) =>
                 parse_flags(other, call.flagmap, call.category).value
                    = result.value
        /\ call.names = <<>> =>
              result.value = {} /\ result.invalid_names = <<>>

\* C2: the invalid_names of parse_flags are exactly the lowercased names of N
\* that are not keys of F, in the relative order they have in N.
C2_InvalidNamesKeepInputOrder ==
    ParseFlagsDone =>
        result.invalid_names = UnknownNames(call.names, call.flagmap)

LoadFlagsEnded == pc \in {"done", "crashed"} /\ call.op = "load_flags"

(* how often a name occurs in a sequence of names *)
Count(name, names) == Cardinality({ i \in 1..Len(names) : names[i] = name })

Lowered(names) == [i \in 1..Len(names) |-> _strlower(names[i])]

\* C21: a name that appears twice in the input of parse_flags is not
\* deduplicated: a valid one gives the same bitmask as one occurrence does,
\* and an invalid one appears in invalid_names as often as in the input.
C21_RepeatedNamesAreKept ==
    ParseFlagsDone =>
        /\ result.value =
              parse_flags(Once(Lowered(call.names)), call.flagmap,
                          call.category).value
        /\ \A i \in 1..Len(call.names) :
              IsUnknown(call.names[i], call.flagmap) =>
                 Count(_strlower(call.names[i]), result.invalid_names)
                    = Count(_strlower(call.names[i]), Lowered(call.names))

C21_Witness ==
    /\ ParseFlagsDone
    /\ result.value # {}
    /\ \E i, j \in 1..Len(call.names) :
          /\ i < j
          /\ _strlower(call.names[i]) = _strlower(call.names[j])
          /\ IsUnknown(call.names[i], call.flagmap)
          /\ Count(_strlower(call.names[i]), result.invalid_names) = 2

(* the strings of the array under the flags key, when load_array accepts it *)
ArrayLoads ==
    LET node == at_path(call.table, call.variable_path)
    IN  node.kind = "array" /\ Len(node.val) <= call.capacity
LoadedNames ==
    LET strings == SelectSeq(at_path(call.table, call.variable_path).val,
                             LAMBDA node : node.kind = "string")
    IN  [i \in 1..Len(strings) |-> strings[i].val]

SameBag(a, b) ==
    /\ Len(a) = Len(b)
    /\ \A i \in 1..Len(a) : Count(a[i], a) = Count(a[i], b)

IsScenario ==
    /\ call.table = ("subsystems" :> names_node(<<n_video, n_bogus, n_audio>>))
    /\ call.flagmap = as_subsystem_flag

\* C3: load_flags never fails because of unrecognized names: whenever the
\* array at the path loads it returns success with the OR of the bits of the
\* recognized names and writes every unrecognized lowercased name to the
\* sink; subsystems ["video", "bogus", "audio"] give VIDEO | AUDIO and a sink
\* that receives exactly ["bogus"].
C3_UnknownNamesNeverFail ==
    (LoadFlagsEnded /\ ArrayLoads) =>
        /\ pc = "done"
        /\ result.ok
        /\ result.val = FlagOr(LoadedNames, call.flagmap)
        /\ SameBag(sink.written \o sink.overrun,
                   UnknownNames(LoadedNames, call.flagmap))
        /\ IsScenario =>
              /\ result.val = SDL_INIT_VIDEO \cup SDL_INIT_AUDIO
              /\ sink.written \o sink.overrun = <<n_bogus>>

\* C4: load_flags copies invalid names into the sink only up to the sink's
\* remaining capacity: it writes exactly as many as fit, never writes past
\* the sink's end, and still returns the bitmask as a success.
C4_SinkNeverOverrun ==
    (LoadFlagsEnded /\ ArrayLoads) =>
        LET found == UnknownNames(LoadedNames, call.flagmap)
        IN  /\ sink.overrun = <<>>
            /\ sink.bounded =>
                  Len(sink.written) = IF Len(found) <= sink.capacity
                                      THEN Len(found) ELSE sink.capacity
            /\ pc = "done"
            /\ result.ok

----------------------------------------------------------------------------
(* Reference definitions for the loader claims *)

LoadValueDone == pc = "done" /\ call.op = "load_value"
LoadValueOrElseDone == pc = "done" /\ call.op = "load_value_or_else"
LoadArrayDone == pc = "done" /\ call.op = "load_array"

TargetNode == at_path(call.table, call.variable_path)

(* the values of the integer types *)
ValuesOf(T) ==
    CASE T = "uint8" -> 0..255
      [] T = "uint32" -> Nat
      [] T = "int" -> Int
Fits(T, node) == T \in IntegerTypes => node.val \in ValuesOf(T)

NamesPath(err, path) == \E i \in 1..Len(err) : err[i] = PathPart(path)
NamesText(err, text) == \E i \in 1..Len(err) : err[i] = Lit(text)

IsMissingError(err, path) ==
    /\ NamesText(err, "Expected the variable ")
    /\ NamesText(err, " to exist, ")
    /\ NamesPath(err, path)

IsTypeError(err, path) ==
    /\ NamesText(err, " to have type ")
    /\ NamesPath(err, path)

(* the number a sequence of decimal digits denotes *)
DigitValue(ch) == (CHOOSE i \in 1..10 : DigitChars[i] = ch) - 1
RECURSIVE DecimalValue(_)
DecimalValue(digits) ==
    IF digits = <<>> THEN 0
    ELSE 10 * DecimalValue(SubSeq(digits, 1, Len(digits) - 1))
           + DigitValue(digits[Len(digits)])
NamesNumber(err, n) ==
    \E i \in 1..Len(err) :
       /\ "digits" \in DOMAIN err[i]
       /\ err[i].digits # <<>>
       /\ DecimalValue(err[i].digits) = n

\* C7 (as stated): load_value<T> returns exactly the stored value when the
\* node at the path exists and has T's expected kind, and fails with the
\* missing-variable error naming the path when no node exists at the path.
C7_StoredValueOfExpectedKind ==
    LoadValueDone =>
        /\ TargetNode.kind = node_type(call.T) =>
              result.ok /\ result.val = TargetNode.val
        /\ TargetNode.kind = "none" =>
              ~result.ok /\ IsMissingError(result.err, call.variable_path)

\* C7 (amended): load_value<T> returns exactly the stored value when the node
\* exists, has T's expected kind and the stored value is a value of T; a
\* stored integer outside T's range fails with the type error; no node at the
\* path fails with the missing-variable error naming the path.
C7_StoredValueWhenRepresentable ==
    LoadValueDone =>
        /\ (TargetNode.kind = node_type(call.T) /\ Fits(call.T, TargetNode)) =>
              result.ok /\ result.val = TargetNode.val
        /\ (TargetNode.kind = node_type(call.T) /\ ~Fits(call.T, TargetNode)) =>
              ~result.ok /\ IsTypeError(result.err, call.variable_path)
        /\ TargetNode.kind = "none" =>
              ~result.ok /\ IsMissingError(result.err, call.variable_path)

C7_Witness ==
    /\ LoadValueDone
    /\ call.T = "uint32"
    /\ TargetNode = IntNode(-1)
    /\ ~result.ok

\* C8: when the node exists but its kind is not T's one expected kind,
\* load_value<T> fails, nothing of another kind is coerced into T, and the
\* error names the path, the expected kind and the actual kind of the node.
C8_OtherKindsAreRejected ==
    (LoadValueDone /\ TargetNode.kind \notin {"none", node_type(call.T)}) =>
        /\ ~result.ok
        /\ NamesPath(result.err, call.variable_path)
        /\ \/ NamesText(result.err, node_type(call.T))
           \/ NamesText(result.err, typeid_name(call.T))
        /\ NamesText(result.err, TargetNode.kind)

\* C9: load_value_or_else never fails: it yields the stored value when the
\* node is present with the expected type and the given default in every
\* other case, a missing path or a wrong type.
C9_DefaultInEveryOtherCase ==
    LoadValueOrElseDone =>
        /\ result.ok
        /\ result.val = IF TargetNode.kind = node_type(call.T)
                        THEN TargetNode.val ELSE call.default_val

(* the elements of the array that have the kind of the element type *)
ElementsOfKind(T) ==
    SelectSeq(TargetNode.val, LAMBDA node : node.kind = node_type(T))

\* C10: load_array into storage of capacity C succeeds for an array of
\* exactly C elements and fails for an array of C + 1 or more elements with
\* an error that names the path, the capacity C and the actual length; it
\* never truncates: on success no element lies beyond the capacity and every
\* element of the element kind has been written.
C10_CapacityIsChecked ==
    (LoadArrayDone /\ TargetNode.kind = "array") =>
        /\ Len(TargetNode.val) = call.capacity => result.ok
        /\ Len(TargetNode.val) > call.capacity =>
              /\ ~result.ok
              /\ result.err[1] = PathPart(call.variable_path)
              /\ NamesNumber(result.err, call.capacity)
              /\ NamesNumber(result.err, Len(TargetNode.val))
        /\ result.ok =>
              /\ Len(TargetNode.val) <= call.capacity
              /\ result.val - 1 = Len(ElementsOfKind(call.T))

C10_Witness ==
    /\ LoadArrayDone
    /\ TargetNode.kind = "array"
    /\ call.capacity >= 1
    /\ Len(TargetNode.val) = call.capacity + 1
    /\ ~result.ok

(* the array holds an element that is not of the element type's kind *)
IsMixed(T) ==
    \E i \in 1..Len(TargetNode.val) : TargetNode.val[i].kind # node_type(T)

\* C11: load_array fails with an error when the array at the path is not
\* homogeneous in the element type's expected kind; it never returns success
\* for a mixed-kind array.
C11_MixedArraysAreRejected ==
    (LoadArrayDone /\ TargetNode.kind = "array" /\ IsMixed(call.T)) =>
        ~result.ok

\* C12: whenever load_array succeeds, the number of elements it wrote (the
\* distance from the start of the storage to the returned iterator) equals
\* the length of the array node, and element i of the storage equals
\* element i of the array.
C12_WritesEveryElement ==
    (LoadArrayDone /\ result.ok) =>
        /\ result.val - 1 = Len(TargetNode.val)
        /\ \A i \in 1..Len(TargetNode.val) :
              into_array[i] = TargetNode.val[i].val

SubtableDone == pc = "done" /\ call.op = "subtable"

IsNotTableError(err, path) ==
    /\ NamesText(err, " to be a table, ")
    /\ NamesPath(err, path)

(* the node a path leads to, walked one key at a time: nothing when a key is *)
(* absent or the walk would pass through a node that is not a table          *)
RECURSIVE Walk(_, _)
Walk(node, path) ==
    IF path = <<>> THEN node
    ELSE IF node.kind # "table" THEN None
    ELSE IF Head(path) \notin DOMAIN node.val THEN None
    ELSE Walk(node.val[Head(path)], Tail(path))

\* C15: subtable(table, path) returns the table stored at the path when the
\* node there is a table; fails with the missing-path error carrying the
\* requested path when a segment of the path is absent or passes through a
\* node that is not a table; and fails with a distinct not-a-table error when
\* the node exists but is not a table.
C15_SubtableOrError ==
    SubtableDone =>
        LET node == Walk(TblNode(call.table), call.variable_path)
        IN  /\ node.kind = "table" => result = expected(node.val)
            /\ node.kind = "none" =>
                  /\ ~result.ok
                  /\ IsMissingError(result.err, call.variable_path)
                  /\ ~IsNotTableError(result.err, call.variable_path)
            /\ node.kind \notin {"none", "table"} =>
                  /\ ~result.ok
                  /\ IsNotTableError(result.err, call.variable_path)
                  /\ ~IsMissingError(result.err, call.variable_path)

C15_Witness ==
    /\ SubtableDone
    /\ call.variable_path = <<"x", "y">>
    /\ "x" \in DOMAIN call.table
    /\ call.table["x"].kind = "integer"
    /\ ~result.ok
    /\ IsMissingError(result.err, call.variable_path)

LoadColorDone == pc = "done" /\ call.op = "load_color"

\* C18: loading a color succeeds only when the array at the path has exactly
\* 4 elements: arrays of 0, 1, 2, 3 or 5 and more elements are rejected with
\* an error.
C18_ColorNeedsFourComponents ==
    (LoadColorDone /\ TargetNode.kind = "array") =>
        (result.ok <=> Len(TargetNode.val) = size(into_array))

\* C19: every component of a successfully loaded color equals the integer
\* stored in the configuration and lies in 0..255: an element outside the
\* unsigned-byte range is never stored wrapped modulo 256 as a success.
C19_ComponentsAreStoredBytes ==
    (LoadColorDone /\ result.ok) =>
        \A i \in 1..Len(TargetNode.val) :
           /\ result.val[i] = TargetNode.val[i].val
           /\ result.val[i] \in 0..255

----------------------------------------------------------------------------
(* Reference definitions for the chain claims *)

InChain == call.op \in ChainOps /\ pc \in {"chain", "done"}

(* the table the steps of the chain are given *)
Narrowed == subtable(call.table, call.variable_path)

(* a step run on its own on the narrowed table, with nothing assigned yet *)
Alone(i) ==
    invoke(Chain(call.op)[i], call.capacity, Narrowed.val,
           [v \in OutputVars(call.op) |-> Unassigned], back_inserter)

StepFails(i) == Chain(call.op)[i].comb = "and_then" /\ ~Alone(i).result.ok

(* the first failing step in chain order: 0 is the subtable at the head,     *)
(* and one past the last step stands for no failure                          *)
FirstFailure ==
    IF ~Narrowed.ok THEN 0
    ELSE IF \E i \in 1..Len(Chain(call.op)) : StepFails(i)
    THEN CHOOSE i \in 1..Len(Chain(call.op)) :
            StepFails(i) /\ \A j \in 1..(i - 1) : ~StepFails(j)
    ELSE Len(Chain(call.op)) + 1

ErrorOf(i) == IF i = 0 THEN Narrowed.err ELSE Alone(i).result.err

Upto(n) == [i \in 1..n |-> i]

\* C5: once a chain of and_then/map steps holds a failure, every later
\* and_then and map returns that same failure unchanged and invokes none of
\* the later steps, so the error the chain reports is the error of the first
\* failing step in chain order.
C5_FailurePropagatesUnchanged ==
    (InChain /\ ~result.ok /\ runtime = <<>>) =>
        /\ FirstFailure <= Len(Chain(call.op))
        /\ FirstFailure < step
        /\ result.err = ErrorOf(FirstFailure)
        /\ invoked = Upto(FirstFailure)

C5_Witness ==
    /\ InChain
    /\ ~result.ok
    /\ FirstFailure \in 1..(Len(Chain(call.op)) - 1)
    /\ step = Len(Chain(call.op)) + 1

(* the value step i assigns to its output when it succeeds *)
ValueOf(i) == Alone(i).outputs[Chain(call.op)[i].output].val

\* C6: when the chain succeeds every step's output variable has been assigned
\* its loaded or default value; when a step fails, the output of the failing
\* step and of every later step is left unassigned, and the outputs of all
\* earlier steps hold their loaded values.
C6_OutputsAssignedUpToFailure ==
    (InChain /\ step = Len(Chain(call.op)) + 1) =>
        \A i \in 1..Len(Chain(call.op)) :
           outputs[Chain(call.op)[i].output] =
              IF i < FirstFailure THEN Assigned(ValueOf(i)) ELSE Unassigned

C6_Witness ==
    /\ InChain
    /\ step = Len(Chain(call.op)) + 1
    /\ FirstFailure \in 2..Len(Chain(call.op))
    /\ outputs[Chain(call.op)[1].output].assigned

----------------------------------------------------------------------------
(* Reference definitions for the window and renderer claims *)

WindowLoaders == {"load_window", "make_window_from_config"}
RendererLoaders == {"load_renderer", "make_renderer_from_config"}

(* the section of the configuration a loader reads, and a key of it *)
SectionOf(name) == subscript(call.table, name)
KeyOf(name, key) ==
    IF SectionOf(name).kind = "table" THEN subscript(SectionOf(name).val, key)
    ELSE None

IsNames(node) ==
    /\ node.kind = "array"
    /\ Len(node.val) > 0
    /\ \A i \in 1..Len(node.val) : node.val[i].kind = "string"

(* {window: {title: "Game", width: 800, height: 600}}, to which the keys     *)
(* said to be optional may be added with values of their kinds               *)
IsGameWindow ==
    /\ KeyOf("window", "title") = StrNode(n_Game)
    /\ KeyOf("window", "width") = IntNode(800)
    /\ KeyOf("window", "height") = IntNode(600)
    /\ KeyOf("window", "flags") = None \/ IsNames(KeyOf("window", "flags"))
    /\ KeyOf("window", "x").kind \in {"none", "integer"}
    /\ KeyOf("window", "y").kind \in {"none", "integer"}

\* C13: loading the window from {window: {title: "Game", width: 800,
\* height: 600}} succeeds with x = y = SDL_WINDOWPOS_UNDEFINED and flags = 0;
\* in every window loader flags, x and y are optional: without them the
\* runtime is still asked for the window, with those values in their place.
C13_WindowOptionsAreOptional ==
    (call.op \in WindowLoaders /\ pc = "done" /\ IsGameWindow) =>
        /\ Len(runtime) = 1
        /\ KeyOf("window", "flags") = None =>
              runtime[1].flags = Assigned({})
        /\ KeyOf("window", "x") = None =>
              runtime[1].x = Assigned(SDL_WINDOWPOS_UNDEFINED)
        /\ KeyOf("window", "y") = None =>
              runtime[1].y = Assigned(SDL_WINDOWPOS_UNDEFINED)

(* the key the first failing step reads is missing from the narrowed table *)
FailedOnMissingKey ==
    /\ InChain
    /\ step = Len(Chain(call.op)) + 1
    /\ FirstFailure \in 1..Len(Chain(call.op))
    /\ at_path(Narrowed.val, Chain(call.op)[FirstFailure].path) = None

\* C14: loading the window from {window: {width: 800, height: 600}} fails
\* with a missing-path error naming "window.title"; in a chain narrowed by
\* subtable a missing-path error names the full dotted path from the root,
\* not the key relative to the subtable.
C14_MissingPathIsNamedFromRoot ==
    FailedOnMissingKey =>
        /\ ~result.ok
        /\ IsMissingError(result.err,
              call.variable_path \o Chain(call.op)[FirstFailure].path)

\* C16: in every renderer loader renderer.flags is required, so loading
\* fails when the flags key is absent, while renderer.driver_index is
\* optional and the driver index passed to the runtime is -1 when the key is
\* absent.
C16_RendererFlagsAreRequired ==
    (call.op \in RendererLoaders /\ pc = "done"
       /\ SectionOf("renderer").kind = "table") =>
        /\ KeyOf("renderer", "flags") = None =>
              ~result.ok /\ runtime = <<>>
        /\ (KeyOf("renderer", "driver_index") = None /\ runtime # <<>>) =>
              runtime[1].driver_index = Assigned(-1)

\* C17: when the runtime fails to create a resource (SDL_Init,
\* SDL_CreateWindow, SDL_CreateRenderer) every loader returns a failure whose
\* message is exactly the runtime's error string.
C17_RuntimeErrorIsVerbatim ==
    (call.op \in ChainOps \cup ConfigOps /\ pc = "done" /\ runtime # <<>>
       /\ ~runtime[1].created) =>
        result = unexpected(SDL_GetError)

\* C20: in every window loader the y position handed to the runtime is the
\* integer stored under the window's y key whenever that key holds an
\* integer, whether or not there is an x key and whatever its value.
C20_YIsReadFromY ==
    (call.op \in WindowLoaders /\ runtime # <<>>
       /\ KeyOf("window", "y").kind = "integer") =>
        runtime[1].y = Assigned(KeyOf("window", "y").val)

----------------------------------------------------------------------------
(* Reference definitions for the later flag claims *)

IsKey(name) == name \in DOMAIN call.flagmap.map

\* C23: parse_flags rearranges its input in place: afterwards the input is a
\* permutation of the lowercased original names in which every name that is
\* a key of the flag table precedes every name that is not, and
\* invalid_names is exactly the suffix starting at the first invalid name.
C23_InputIsPartitionedInPlace ==
    ParseFlagsDone =>
        /\ SameBag(flag_names, Lowered(call.names))
        /\ \A i, j \in 1..Len(flag_names) :
              (i < j /\ IsKey(flag_names[j])) => IsKey(flag_names[i])
        /\ \E mid \in 1..(Len(flag_names) + 1) :
              /\ \A i \in 1..(mid - 1) : IsKey(flag_names[i])
              /\ mid <= Len(flag_names) => ~IsKey(flag_names[mid])
              /\ result.invalid_names =
                    SubSeq(flag_names, mid, Len(flag_names))

C23_Witness ==
    /\ ParseFlagsDone
    /\ flag_names # Lowered(call.names)
    /\ \E i \in 1..Len(flag_names) : IsKey(flag_names[i])
    /\ Len(result.invalid_names) = 2

(* what the copy_if and accumulate formulation gives for the same call *)
Superseded == parsing_parse_flags(call.names, call.flagmap, back_inserter)

\* C24: the copy_if + filter/accumulate formulation of parse_flags and the
\* partition + reduce formulation are observationally equivalent: for every
\* name list and flag table of 32-bit values they produce the same bitmask
\* and the same sequence of invalid names in the same order.
C24_FormulationsAgree ==
    (ParseFlagsDone /\ call.flagmap.width <= 32) =>
        /\ result.value = Superseded.value
        /\ result.invalid_names = Superseded.sink.written

\* C29: parse_flags returns the OR at the full width of the flag table's
\* value type: for a table of values wider than 32 bits every bit of a valid
\* name's flag, the bits above bit 31 included, is in the result.
C29_WideFlagsKeepHighBits ==
    ParseFlagsDone =>
        \A i \in 1..Len(call.names) :
           IsKey(_strlower(call.names[i])) =>
              ToWidth(call.flagmap.map[_strlower(call.names[i])],
                      call.flagmap.width) \subseteq result.value

\* C28: load_flags<max_flags> accepts at most max_flags names: with an array
\* of more than max_flags names it fails with the capacity error, produces
\* no bitmask and writes nothing to the invalid-name sink; on success it
\* writes at most max_flags names to the sink.
C28_AtMostMaxFlagsNames ==
    (LoadFlagsEnded /\ TargetNode.kind = "array") =>
        /\ Len(TargetNode.val) > call.capacity =>
              /\ pc = "done"
              /\ ~result.ok
              /\ NamesText(result.err, " can have at most ")
              /\ NamesNumber(result.err, call.capacity)
              /\ sink.written = <<>> /\ sink.overrun = <<>>
        /\ (pc = "done" /\ result.ok) =>
              Len(sink.written) + Len(sink.overrun) <= call.capacity

C28_Witness ==
    /\ LoadFlagsEnded
    /\ TargetNode.kind = "array"
    /\ Len(TargetNode.val) = call.capacity + 1
    /\ IsUnknown(TargetNode.val[1].val, call.flagmap)
    /\ ~result.ok

----------------------------------------------------------------------------
(* Reference definitions for the later chain claims *)

Assemblers == {"load_window", "load_renderer", "init_sdl"}

\* C22: every pipeline step, when it succeeds, returns exactly the table it
\* was given: load, load_or_else and the flag steps pass the subtable on
\* unchanged, and init_sdl, load_window and load_renderer return the table
\* they received rather than the subtable they narrowed to.
C22_StepsPassTheTableThrough ==
    /\ (InChain /\ pc = "chain" /\ result.ok) => result.val = Narrowed.val
    /\ (InChain /\ Narrowed.ok) =>
          \A i \in 1..Len(Chain(call.op)) :
             IF Chain(call.op)[i].comb = "map"
             THEN Alone(i).result = Narrowed.val
             ELSE Alone(i).result.ok => Alone(i).result.val = Narrowed.val
    /\ (call.op \in Assemblers /\ pc = "done" /\ result.ok) =>
          result.val = call.table

C22_Witness ==
    /\ call.op = "load_window"
    /\ pc = "done"
    /\ result.ok
    /\ invoked = Upto(Len(Chain(call.op)))
    /\ call.table # Narrowed.val

\* C25: in load_window, load_renderer and init_sdl the runtime call is made
\* at most once per invocation and only after every configuration step of
\* the chain has succeeded; on a configuration failure it is never made.
C25_RuntimeCalledOnceAfterTheChain ==
    call.op \in Assemblers =>
        /\ Len(runtime) <= 1
        /\ runtime # <<>> =>
              /\ pc = "done"
              /\ FirstFailure = Len(Chain(call.op)) + 1
              /\ invoked = Upto(Len(Chain(call.op)))
        /\ (pc = "done" /\ FirstFailure <= Len(Chain(call.op))) =>
              runtime = <<>>

C25_Witness ==
    /\ call.op = "load_renderer"
    /\ pc = "done"
    /\ Len(runtime) = 1
    /\ runtime[1].fn = "SDL_CreateRenderer"

(* the variable a loader leaves the created handle in *)
HandleOf(op) ==
    IF op = "load_window" THEN "window_output" ELSE "renderer_output"

\* C26: when the step returned by load_window or load_renderer fails for any
\* reason, a configuration error or a runtime creation error, the caller's
\* window_output (renderer_output) is left with the value it had before.
C26_HandleUntouchedOnFailure ==
    (call.op \in {"load_window", "load_renderer"} /\ pc = "done"
       /\ ~result.ok) =>
        outputs[HandleOf(call.op)] = Unassigned

(* the names under window.flags, and what the sink has been given *)
WindowFlagNames ==
    LET node == KeyOf("window", "flags")
    IN  IF node.kind = "array"
        THEN [i \in 1..Len(node.val) |-> node.val[i].val] ELSE <<>>
Reported == sink.written \o sink.overrun

(* the place of the flag step in a chain, 0 when it has none *)
FlagStep ==
    IF \E i \in 1..Len(Chain(call.op)) : Chain(call.op)[i].fn = "_load_flags"
    THEN CHOOSE i \in 1..Len(Chain(call.op)) :
            Chain(call.op)[i].fn = "_load_flags"
    ELSE 0

\* C27: invalid flag names are written to the caller's sink when the flag
\* step runs, so they are reported even when the load fails later: in
\* load_window on a runtime creation failure, in make_window_from_config on
\* a missing title; when the flag step itself fails the sink receives
\* nothing.
C27_InvalidNamesReportedBeforeLaterFailure ==
    /\ (call.op = "load_window" /\ pc = "done" /\ runtime # <<>>
          /\ ~runtime[1].created) =>
          /\ ~result.ok
          /\ SameBag(Reported, UnknownNames(WindowFlagNames, as_window_flag))
    /\ (call.op = "make_window_from_config" /\ pc = "done"
          /\ SectionOf("window").kind = "table"
          /\ IsNames(KeyOf("window", "flags"))
          /\ KeyOf("window", "title") = None) =>
          /\ ~result.ok
          /\ runtime = <<>>
          /\ SameBag(Reported, UnknownNames(WindowFlagNames, as_window_flag))
    /\ (InChain /\ pc = "done" /\ FlagStep # 0
          /\ FirstFailure = FlagStep) =>
          Reported = <<>>
    /\ (call.op = "make_window_from_config" /\ pc = "done"
          /\ KeyOf("window", "flags") # None
          /\ ~IsNames(KeyOf("window", "flags"))) =>
          Reported = <<>>

C27_Witness ==
    /\ call.op = "load_window"
    /\ pc = "done"
    /\ runtime # <<>>
    /\ ~runtime[1].created
    /\ Len(Reported) = 2

----------------------------------------------------------------------------
(* Reference definitions for the main programs *)

(* the one undefined read inside make_window_from_config *)
WindowReadIsUndefined ==
    KeyOf("window", "y").kind = "integer" /\ KeyOf("window", "x") = None

\* C30: in the main program a window or renderer result is dereferenced
\* (passed to make_renderer_from_config, SDL_SetRenderDrawColor,
\* SDL_RenderClear, SDL_RenderPresent, SDL_DestroyRenderer or
\* SDL_DestroyWindow) only where the corresponding load returned success;
\* after a failed load no later step uses the missing handle.
C30_HandlesUsedOnlyAfterSuccess ==
    call.op \in MainOps =>
        /\ pc = "crashed" => WindowReadIsUndefined
        /\ \A i \in 1..Len(runtime) :
              \A j \in 1..Len(runtime[i].handles) :
                 runtime[i].handles[j] \in {"window", "renderer"}

====
